---- MODULE Spec2Model ----
(***************************************************************************)
(* Model of src/src/perle_env.py: EnvironmentProvisioner.new_environment   *)
(* and the log files it writes under output_dir.                           *)
(*                                                                         *)
(* Callers are concurrent invocations of new_environment (threads sharing  *)
(* one provisioner, or several runs of the command line tool on the same   *)
(* output directory).  Every invocation opens its own file object: open()  *)
(* with mode "w" creates or truncates the file at once, the writes go to   *)
(* the file object's buffer (a record is far smaller than the 8192 byte    *)
(* buffer), and the buffer reaches the file in one write at offset 0 when  *)
(* the with-block closes the file.                                         *)
(***************************************************************************)
EXTENDS Integers, Sequences, FiniteSets, TLC

\* ------------------------------------------------------------------ bounds
\* Total number of new_environment invocations explored.
MaxCalls == 2

\* ------------------------------------------------------------------ inputs
Callers == {"c1", "c2"}

\* name=None (the default) and name="" are both falsy in Python.
None == <<>>
EmptyStr == <<"">>

\* An identifier string is modelled as the tuple of its hyphen separated parts:
\* "demo-1" is <<"demo", "1">>.
NameInputs == {None, EmptyStr, <<"demo", "1">>}

TrackInputs == {"demo", "customer", "platform", "bogus"}

\* The seconds datetime.now() may read.  The wall clock is not monotonic (it
\* may be set back), so every reading is any of these.
ClockReadings == {0, 1}

\* The values os.urandom(4).hex() may return (2^32 in the program).
RandomSuffixes == {"0a0a0a0a", "0b0b0b0b"}

\* ------------------------------------------------------------------ catalog
\* self.env_configs as built by __init__.
InitialCatalog ==
    [demo |->
        [description |-> "Short-Term Demo Environment - ephemeral, cost-optimized, rapid.",
         infrastructure_template |-> "aws_demo_template.json",
         ci_cd_profile |-> "demo_ci_cd_profile.json",
         agent_policy |-> "demo_agent_policy.json",
         resources |-> <<"Lambda", "DynamoDB (on-demand)", "API Gateway">>],
     customer |->
        [description |-> "Medium-Term Customer Environment - stable, scalable, persistent.",
         infrastructure_template |-> "aws_customer_template.json",
         ci_cd_profile |-> "customer_ci_cd_profile.json",
         agent_policy |-> "customer_agent_policy.json",
         resources |-> <<"EC2 (Auto Scaling)", "RDS", "EKS", "S3">>],
     platform |->
        [description |-> "Long-Term Platform Environment - durable, highly available, secure.",
         infrastructure_template |-> "aws_platform_template.json",
         ci_cd_profile |-> "platform_ci_cd_profile.json",
         agent_policy |-> "platform_agent_policy.json",
         resources |-> <<"EC2 (Dedicated Instances)", "Aurora Global DB", "EKS (Multi-AZ)",
                         "VPC Endpoints", "GuardDuty">>]]

VARIABLES
    env_configs,  \* self.env_configs
    files,        \* output_dir: env_id -> the bytes of {env_id}.log, as a sequence of extents
    pc,           \* where each caller is in new_environment
    track,        \* the track argument of the caller's invocation
    name,         \* the name argument of the caller's invocation
    env_id,       \* local env_id
    details,      \* local provisioning_details
    buf,          \* what the caller's open file object holds unflushed
    sim,          \* the messages _simulate_aws_provisioning has printed so far
    generated,    \* the values _generate_env_id has returned
    calls         \* number of invocations so far

vars == <<env_configs, files, pc, track, name, env_id, details, buf, sim,
          generated, calls>>

\* ------------------------------------------------------------------ helpers
NoDetails == [status |-> "", track_type |-> "", template |-> <<>>]

\* `track not in self.env_configs` (line 54), negated.
KnownTrack(t) == t \in DOMAIN env_configs

\* Python truthiness of the name argument (line 59).
Truthy(n) == n # None /\ n # EmptyStr

\* strftime("%Y%m%d%H%M%S") of a clock reading.
Timestamp(t) == ToString(t)

\* f"{track}-{timestamp}-{os.urandom(4).hex()}" with the clock reading ts and
\* the random bytes rnd.
GenerateEnvId(t, ts, rnd) == <<t, Timestamp(ts), rnd>>

\* The dictionary built at lines 66-76 (env_id is the local env_id; start_time is not modelled).
NewDetails(t) ==
    [status |-> "IN_PROGRESS", track_type |-> t, template |-> env_configs[t]]

\* One write to the log file object.
Segment(kind, d) == [kind |-> kind, status |-> d.status, track_type |-> d.track_type]

\* json.dump(provisioning_details, f, indent=4)
DetailsSegment(d) == Segment("details", d)

\* The three writes of lines 79-81.
InitialWrites(d) ==
    << DetailsSegment(d),
       Segment("header", [d EXCEPT !.status = ""]),
       Segment("start", [d EXCEPT !.status = ""]) >>

\* FinalWrites without the second json.dump of line 92.
FinalWritesNoDump(d) ==
    << Segment("end", [d EXCEPT !.status = ""]) >>

\* The two writes of lines 91-92.
FinalWrites(d) ==
    << Segment("end", [d EXCEPT !.status = ""]), DetailsSegment(d) >>

\* Bytes of the indent=4 JSON of a track's details with status IN_PROGRESS,
\* the env_id left out (it adds the same count for every writer of one file).
DetailsBytes(t) ==
    CASE t = "demo" -> 481
      [] t = "customer" -> 499
      [] t = "platform" -> 565
      [] OTHER -> 0

\* Bytes of one segment.  The COMPLETED dictionary is 2 bytes shorter in its
\* status and 46 bytes longer by its end_time entry.
SegBytes(s) ==
    CASE s.kind = "details" /\ s.status = "IN_PROGRESS" -> DetailsBytes(s.track_type)
      [] s.kind = "details" /\ s.status = "COMPLETED" -> DetailsBytes(s.track_type) + 44
      [] s.kind = "header" -> 25
      [] s.kind = "start" -> 56
      [] s.kind = "end" -> 57
      [] OTHER -> 0

RECURSIVE BufBytes(_)
BufBytes(b) == IF b = <<>> THEN 0 ELSE SegBytes(Head(b)) + BufBytes(Tail(b))

\* The bytes of a file from offset n on.  An extent [segs, from, to] is the bytes
\* from..to-1 of the flushed buffer segs.
RECURSIVE DropBytes(_, _)
DropBytes(content, n) ==
    IF content = <<>> THEN <<>>
    ELSE LET e == Head(content)
             size == e.to - e.from
         IN IF n >= size THEN DropBytes(Tail(content), n - size)
            ELSE IF n = 0 THEN content
            ELSE <<[e EXCEPT !.from = e.from + n]>> \o Tail(content)

\* write(2) of a whole buffer at offset 0 of a file not opened for append: the
\* first bytes are replaced, whatever lies beyond them stays.
WriteAtStart(content, b) ==
    IF b = <<>> THEN content
    ELSE <<[segs |-> b, from |-> 0, to |-> BufBytes(b)]>> \o DropBytes(content, BufBytes(b))

\* open(log_file_path, "w"): create the file, or truncate it.
OpenTruncate(id) ==
    IF id \in DOMAIN files THEN [files EXCEPT ![id] = <<>>]
    ELSE [i \in DOMAIN files \cup {id} |-> IF i = id THEN <<>> ELSE files[i]]

\* The messages of _simulate_aws_provisioning, each named by the config key it
\* prints, in the order of lines 41, 44, 46, 48.
SimMessages == <<"infrastructure_template", "ci_cd_profile", "agent_policy", "resources">>

\* ------------------------------------------------------------------ state
Init ==
    /\ env_configs = InitialCatalog
    /\ files = <<>>
    /\ pc = [c \in Callers |-> "idle"]
    /\ track = [c \in Callers |-> ""]
    /\ name = [c \in Callers |-> None]
    /\ env_id = [c \in Callers |-> <<>>]
    /\ details = [c \in Callers |-> NoDetails]
    /\ buf = [c \in Callers |-> <<>>]
    /\ sim = [c \in Callers |-> <<>>]
    /\ generated = {}
    /\ calls = 0

\* The arguments and locals of a returned invocation are gone.
DropLocals(c) ==
    /\ track' = [track EXCEPT ![c] = ""]
    /\ name' = [name EXCEPT ![c] = None]
    /\ env_id' = [env_id EXCEPT ![c] = <<>>]
    /\ details' = [details EXCEPT ![c] = NoDetails]
    /\ buf' = [buf EXCEPT ![c] = <<>>]
    /\ sim' = [sim EXCEPT ![c] = <<>>]

\* ------------------------------------------------------------------ actions
\* InvalidTrack with the log file opened before the track is looked up.
InvalidTrackOpensFile(c) ==
    /\ pc[c] = "idle"
    /\ calls < MaxCalls
    /\ \E t \in TrackInputs, n \in NameInputs, ts \in ClockReadings, rnd \in RandomSuffixes :
        /\ ~KnownTrack(t)
        /\ track' = [track EXCEPT ![c] = t]
        /\ name' = [name EXCEPT ![c] = n]
        /\ files' = OpenTruncate(IF Truthy(n) THEN n ELSE GenerateEnvId(t, ts, rnd))
    /\ pc' = [pc EXCEPT ![c] = "rejected"]
    /\ calls' = calls + 1
    /\ UNCHANGED <<env_configs, env_id, details, buf, sim, generated>>

\* Lines 54-55: an unknown track prints the error message.
InvalidTrack(c) ==
    /\ pc[c] = "idle"
    /\ calls < MaxCalls
    /\ \E t \in TrackInputs, n \in NameInputs :
        /\ ~KnownTrack(t)
        /\ track' = [track EXCEPT ![c] = t]
        /\ name' = [name EXCEPT ![c] = n]
    /\ pc' = [pc EXCEPT ![c] = "rejected"]
    /\ calls' = calls + 1
    /\ UNCHANGED <<env_configs, files, env_id, details, buf, sim, generated>>

\* Line 56: the refused invocation returns None.
Return(c) ==
    /\ pc[c] = "rejected"
    /\ pc' = [pc EXCEPT ![c] = "idle"]
    /\ DropLocals(c)
    /\ UNCHANGED <<env_configs, files, generated, calls>>

\* Lines 58-83 for a known track: pick the identifier, open (create or
\* truncate) the log file, build the details and write them, the header and
\* the start line to the file object.
BeginWith(c, t, n, id) ==
    /\ track' = [track EXCEPT ![c] = t]
    /\ name' = [name EXCEPT ![c] = n]
    /\ env_id' = [env_id EXCEPT ![c] = id]
    /\ generated' = IF Truthy(n) THEN generated ELSE generated \cup {id}
    /\ files' = OpenTruncate(id)
    /\ details' = [details EXCEPT ![c] = NewDetails(t)]
    /\ buf' = [buf EXCEPT ![c] = InitialWrites(NewDetails(t))]
    /\ sim' = [sim EXCEPT ![c] = <<>>]
    /\ pc' = [pc EXCEPT ![c] = "simulating"]
    /\ calls' = calls + 1
    /\ UNCHANGED env_configs

Begin(c) ==
    /\ pc[c] = "idle"
    /\ calls < MaxCalls
    /\ \E t \in TrackInputs, n \in NameInputs, ts \in ClockReadings, rnd \in RandomSuffixes :
        /\ KnownTrack(t)
        /\ BeginWith(c, t, n, IF Truthy(n) THEN n ELSE GenerateEnvId(t, ts, rnd))

\* One print of _simulate_aws_provisioning (lines 41-48).
SimStep(c) ==
    /\ pc[c] = "simulating"
    /\ sim' = [sim EXCEPT ![c] = Append(sim[c], SimMessages[Len(sim[c]) + 1])]
    /\ pc' = [pc EXCEPT ![c] = IF Len(sim[c]) + 1 = Len(SimMessages)
                                 THEN "simulated" ELSE "simulating"]
    /\ UNCHANGED <<env_configs, files, track, name, env_id, details, buf,
                   generated, calls>>

\* A print of _simulate_aws_provisioning raises (OSError on a closed pipe or a
\* vanished terminal): the with-block closes the file, which flushes what was
\* written so far, and the exception leaves new_environment.
SimFail(c) ==
    /\ pc[c] = "simulating"
    /\ files' = [files EXCEPT ![env_id[c]] = WriteAtStart(files[env_id[c]], buf[c])]
    /\ pc' = [pc EXCEPT ![c] = "idle"]
    /\ DropLocals(c)
    /\ UNCHANGED <<env_configs, generated, calls>>

\* Complete changing the resource list through the reference line 73 shares
\* with the catalog.
CompleteTouchesCatalog(c) ==
    /\ pc[c] = "simulated"
    /\ details' = [details EXCEPT ![c].status = "COMPLETED"]
    /\ buf' = [buf EXCEPT ![c] = buf[c] \o FinalWrites([details[c] EXCEPT !.status = "COMPLETED"])]
    /\ pc' = [pc EXCEPT ![c] = "completed"]
    /\ env_configs' = [env_configs EXCEPT ![track[c]].resources = Tail(@)]
    /\ UNCHANGED <<files, track, name, env_id, sim, generated, calls>>

\* Lines 88-92: set the status, write the completion line and the details again.
Complete(c) ==
    /\ pc[c] = "simulated"
    /\ details' = [details EXCEPT ![c].status = "COMPLETED"]
    /\ buf' = [buf EXCEPT ![c] = buf[c] \o FinalWrites([details[c] EXCEPT !.status = "COMPLETED"])]
    /\ pc' = [pc EXCEPT ![c] = "completed"]
    /\ UNCHANGED <<env_configs, files, track, name, env_id, sim,
                   generated, calls>>

\* The end of the with-block: the buffer is flushed and the file closed; lines
\* 95-101 print, and new_environment returns.
Close(c) ==
    /\ pc[c] = "completed"
    /\ files' = [files EXCEPT ![env_id[c]] = WriteAtStart(files[env_id[c]], buf[c])]
    /\ pc' = [pc EXCEPT ![c] = "idle"]
    /\ DropLocals(c)
    /\ UNCHANGED <<env_configs, generated, calls>>

\* The flush at the end of the with-block fails (disk full, I/O error): nothing
\* reaches the file and OSError leaves new_environment.
CloseFail(c) ==
    /\ pc[c] = "completed"
    /\ pc' = [pc EXCEPT ![c] = "idle"]
    /\ DropLocals(c)
    /\ UNCHANGED <<env_configs, files, generated, calls>>

Next ==
    \/ \E c \in Callers : InvalidTrack(c)
    \/ \E c \in Callers : Return(c)
    \/ \E c \in Callers : Begin(c)
    \/ \E c \in Callers : SimStep(c)
    \/ \E c \in Callers : SimFail(c)
    \/ \E c \in Callers : Complete(c)
    \/ \E c \in Callers : Close(c)
    \/ \E c \in Callers : CloseFail(c)

Spec == Init /\ [][Next]_vars

\* The runs in which no print and no flush raises.
NextFaultFree ==
    \/ \E c \in Callers : InvalidTrack(c)
    \/ \E c \in Callers : Return(c)
    \/ \E c \in Callers : Begin(c)
    \/ \E c \in Callers : SimStep(c)
    \/ \E c \in Callers : Complete(c)
    \/ \E c \in Callers : Close(c)

SpecFaultFree == Init /\ [][NextFaultFree]_vars

\* ------------------------------------------------------------------ readers
\* What a reader of a log file finds as the request's status: nothing in an empty
\* file, the status of the last details written in a file that holds one whole
\* flushed buffer, and no parseable record in a file that mixes two writes.
StatusShown(content) ==
    IF content = <<>> THEN "NONE"
    ELSE IF Len(content) = 1 /\ content[1].from = 0
         THEN LET segs == content[1].segs
              IN IF segs[Len(segs)].kind = "details" THEN segs[Len(segs)].status
                 ELSE segs[1].status
         ELSE "GARBLED"

\* The place of a shown status in the lifecycle order: nothing readable, in
\* progress, terminal.
Rank(status) ==
    CASE status = "IN_PROGRESS" -> 1
      [] status \in {"COMPLETED", "FAILED", "FAILED_PARTIAL"} -> 2
      [] OTHER -> 0

\* The caller is inside the with-block of lines 78-92.
InFlight(c) == pc[c] \in {"simulating", "simulated", "completed"}

\* The tracks the command line accepts (line 114).
ValidTracks == {"demo", "customer", "platform"}

\* ------------------------------------------------------------------ claims

\* C1: a submission whose name is the identifier of a request whose record is
\* in the log store is refused and leaves the store as it was.
C1_DuplicateNameRefused ==
    [][\A c \in Callers :
         (pc[c] = "idle" /\ pc'[c] # "idle"
            /\ name'[c] \notin {None, EmptyStr}
            /\ name'[c] \in DOMAIN files /\ files[name'[c]] # <<>>)
         => (pc'[c] = "rejected" /\ files' = files)]_vars

\* C2: a call made without a name never gets an identifier that an earlier
\* call made without a name got.
C2_GeneratedIdentifiersUnique ==
    [][\A c \in Callers :
         (pc[c] = "idle" /\ pc'[c] = "simulating" /\ name'[c] \in {None, EmptyStr})
         => env_id'[c] \notin generated]_vars

\* C3: a submission with a track other than demo, customer, platform is refused:
\* it creates no record, leaves every record of the store as it was and prints
\* none of the provisioning messages, up to and including its return.
C3_UnknownTrackRefused ==
    /\ [](\A c \in Callers :
            pc[c] = "rejected" => sim[c] = <<>> /\ buf[c] = <<>> /\ env_id[c] = <<>>)
    /\ [][\A c \in Callers :
            /\ (pc[c] = "idle" /\ pc'[c] # "idle" /\ track'[c] \notin ValidTracks)
                 => (pc'[c] = "rejected" /\ files' = files /\ sim' = sim)
            /\ (pc[c] = "rejected" /\ pc'[c] # "rejected")
                 => (pc'[c] = "idle" /\ files' = files /\ sim' = sim)]_vars

\* C3 witness: a refused submission while the store holds a record.
C3_Witness ==
    \E c \in Callers :
        pc[c] = "rejected" /\ track[c] = "bogus" /\ DOMAIN files # {}

\* C4: the status a request's record shows never moves back in the lifecycle
\* order, and a record that shows a terminal status shows it from then on.
C4_StatusNeverRegresses ==
    [][\A id \in DOMAIN files :
         /\ Rank(StatusShown(files'[id])) >= Rank(StatusShown(files[id]))
         /\ Rank(StatusShown(files[id])) = 2
              => StatusShown(files'[id]) = StatusShown(files[id])]_vars

\* C5: pipeline configuration and agent deployment start only after resource
\* provisioning is done.
C5_ResourcesBeforePipeline ==
    \A c \in Callers : \A i \in DOMAIN sim[c] :
        sim[c][i] \in {"ci_cd_profile", "agent_policy"}
        => \E j \in 1 .. (i - 1) : sim[c][j] = "resources"

C7_StepFailureRecorded ==
    [][\A c \in Callers :
         (pc[c] = "simulating" /\ pc'[c] = "idle")
         => StatusShown(files'[env_id[c]])
              = (IF sim[c] = <<>> THEN "FAILED" ELSE "FAILED_PARTIAL")]_vars

\* C8: a log file is empty or holds exactly one whole flushed record, never
\* bytes of two writes.
C8_RecordsWrittenWhole ==
    \A id \in DOMAIN files :
        files[id] = <<>> \/ (Len(files[id]) = 1 /\ files[id][1].from = 0)

\* C9: the catalog holds, for each of demo, customer and platform, a template
\* with a non-empty resource list, the catalog is the one built at construction
\* whatever calls were made, and the template inside a request's details is the
\* catalog's.
C9_TemplatesImmutable ==
    /\ env_configs = InitialCatalog
    /\ \A t \in ValidTracks :
        t \in DOMAIN env_configs /\ Len(env_configs[t].resources) > 0
    /\ \A c \in Callers :
        InFlight(c) => details[c].template = InitialCatalog[track[c]]

\* C9 witness: a lookup for platform after an earlier request was completed.
C9_Witness ==
    /\ calls >= 2
    /\ \E id \in DOMAIN files : StatusShown(files[id]) = "COMPLETED"
    /\ \E c \in Callers :
        pc[c] = "simulating" /\ track[c] = "platform"
          /\ details[c].template = env_configs["platform"]

\* C10: no simulation message is printed before the initial record is in the
\* store, and a request's status is COMPLETED only if the store shows it.
C10_NoAdvancePastUnpersisted ==
    \A c \in Callers :
        InFlight(c)
        => /\ sim[c] # <<>> => files[env_id[c]] # <<>>
           /\ details[c].status = "COMPLETED"
                => StatusShown(files[env_id[c]]) = "COMPLETED"

====
